---- MODULE Spec2Model ----
(***************************************************************************)
(* Model of qbit/goru (main.go): the OpenBSD target table, the pipeline    *)
(* driver (main), Fetch, Verify and Build with its control server, disk    *)
(* provisioning, emulator supervision and console dialogue.                *)
(*                                                                         *)
(* Paths are sequences of components (path.Join is concatenation); time is *)
(* counted in minutes.                                                     *)
(***************************************************************************)
EXTENDS Integers, Sequences, FiniteSets, TLC

(***************************************************************************)
(* Model bounds.                                                           *)
(***************************************************************************)
\* granularity, in minutes, of the clock while the dialogue waits
TickMinutes == 15

\* at most this many files of the set are missing from outDir when Fetch starts
MaxMissing == 3

\* longest request body of a POST, counted in the chunks io.Copy writes
MaxBody == 2

(***************************************************************************)
(* Program constants.                                                      *)
(***************************************************************************)
\* main.go:206  expect.SpawnWithArgs(o.qemuCmd, 30*time.Minute, ...)
SpawnTimeout == 30
\* main.go:245  ExpectBatch(..., 30*time.Minute)
BatchTimeout == 30

\* os.Args[1] values the driver is run with; smushVer drops the dots
Releases == {"7.3", "7.4", "7.5"}

smushVer(release) ==
    CASE release = "7.3" -> "73"
      [] release = "7.4" -> "74"
      [] release = "7.5" -> "75"

\* dest := path.Join("/tmp/openbsd", release)
dest(release) == <<"tmp", "openbsd", release>>

\* path.Join on component sequences
Join(p, q) == p \o q

(***************************************************************************)
(* File names are sequences of pieces, so that the "%s" marker of a        *)
(* template is a piece of its own.                                         *)
(***************************************************************************)
Marker == "%s"

\* the literal list newSetList starts from
SetTemplates ==
    << <<"SHA256.sig">>,
       <<"SHA256">>,
       <<"bsd">>,
       <<"bsd.mp">>,
       <<"bsd.rd">>,
       <<"index.txt">>,
       <<"base", Marker, ".tgz">>,
       <<"comp", Marker, ".tgz">>,
       <<"man", Marker, ".tgz">>,
       <<"xbase", Marker, ".tgz">>,
       <<"miniroot", Marker, ".img">> >>

\* strings.Contains(name, "%s")
ContainsMarker(name) == \E i \in 1..Len(name) : name[i] = Marker

\* fmt.Sprintf(format, arg) with one argument: the first %s verb takes the
\* argument, any further one has none left
RECURSIVE SprintfFrom(_, _, _)
SprintfFrom(format, arg, used) ==
    IF format = <<>> THEN <<>>
    ELSE IF Head(format) = Marker
           THEN <<IF used THEN "%!s(MISSING)" ELSE arg>>
                    \o SprintfFrom(Tail(format), arg, TRUE)
           ELSE <<Head(format)>> \o SprintfFrom(Tail(format), arg, used)

Sprintf(format, arg) == SprintfFrom(format, arg, FALSE)

\* (mutant) the templates are returned as they are
newSetListUnformatted(sv) == SetTemplates

newSetList(sv) ==
    [s \in 1..Len(SetTemplates) |->
        IF ContainsMarker(SetTemplates[s])
          THEN Sprintf(SetTemplates[s], sv)
          ELSE SetTemplates[s]]

(***************************************************************************)
(* The target table of main(), in source order.  drive is the path named   *)
(* by the "-drive file=...,format=raw" launch argument.                    *)
(***************************************************************************)
Targets(release) ==
    << [arch |-> "arm64",   pkgArch |-> "aarch64", qemu |-> "qemu-system-aarch64",
        userNet |-> FALSE, sets |-> newSetList(smushVer(release)),
        drive |-> Join(dest(release), <<"amd64", "disk.raw">>)],
       [arch |-> "amd64",   pkgArch |-> "amd64",   qemu |-> "qemu-system-x86_64",
        userNet |-> TRUE, sets |-> newSetList(smushVer(release)),
        drive |-> Join(dest(release), <<"amd64", "disk.raw">>)],
       [arch |-> "i386",    pkgArch |-> "i386",    qemu |-> "qemu-system-i386",
        userNet |-> TRUE, sets |-> newSetList(smushVer(release)),
        drive |-> Join(dest(release), <<"i386", "disk.raw">>)],
       [arch |-> "octeon",  pkgArch |-> "mips64",  qemu |-> "qemu-system-mips64",
        userNet |-> TRUE, sets |-> newSetList(smushVer(release)),
        drive |-> Join(dest(release), <<"mips64", "disk.raw">>)],
       [arch |-> "armv7",   pkgArch |-> "arm",     qemu |-> "qemu-system-arm",
        userNet |-> TRUE, sets |-> newSetList(smushVer(release)),
        drive |-> Join(dest(release), <<"armv7", "disk.raw">>)],
       [arch |-> "riscv64", pkgArch |-> "riscv64", qemu |-> "qemu-system-riscv64",
        userNet |-> TRUE, sets |-> newSetList(smushVer(release)),
        drive |-> Join(dest(release), <<"riscv64", "disk.raw">>)] >>

archMap ==
    [a \in {"arm64", "amd64", "i386", "octeon", "armv7", "riscv64"} |->
        CASE a = "arm64"   -> "arm64"
          [] a = "amd64"   -> "amd64"
          [] a = "i386"    -> "386"
          [] a = "octeon"  -> "mips64"
          [] a = "armv7"   -> "arm"
          [] a = "riscv64" -> "riscv64"]

\* outDir := path.Join(dest, o.arch)
outDir(release, a) == Join(dest(release), <<a>>)

(***************************************************************************)
(* The dialogue script handed to ExpectBatch: odd steps await a pattern    *)
(* (BExp), even steps send a line (BSnd).                                  *)
(***************************************************************************)
Script(a) ==
    << [cmd |-> "exp", arg |-> <<"boot>$">>],
       [cmd |-> "snd", arg |-> <<"set tty com0\n">>],
       [cmd |-> "exp", arg |-> <<"boot>">>],
       [cmd |-> "snd", arg |-> <<"\n">>],
       [cmd |-> "exp", arg |-> <<"utoinstall or">>],
       [cmd |-> "snd", arg |-> <<"a\n">>],
       [cmd |-> "exp", arg |-> <<"Response file">>],
       [cmd |-> "snd", arg |-> <<"http://10.0.2.2:25706/install.conf\n">>],
       [cmd |-> "exp", arg |-> <<"login:">>],
       [cmd |-> "snd", arg |-> <<"root\n">>],
       [cmd |-> "exp", arg |-> <<"Password:">>],
       [cmd |-> "snd", arg |-> <<"root\n">>],
       [cmd |-> "exp", arg |-> <<"buildlet#">>],
       [cmd |-> "snd", arg |-> <<"env PKG_PATH=http://cdn.openbsd.org/%m pkg_add bash git go\n">>],
       [cmd |-> "exp", arg |-> <<"buildlet#">>],
       [cmd |-> "snd", arg |-> <<"su - gopher\n">>],
       [cmd |-> "exp", arg |-> <<"buildlet\\$">>],
       [cmd |-> "snd", arg |-> <<"git clone https://github.com/golang/sys\n">>],
       [cmd |-> "exp", arg |-> <<"buildlet\\$">>],
       [cmd |-> "snd", arg |-> <<"cd sys/unix\n">>],
       [cmd |-> "exp", arg |-> <<"buildlet\\$">>],
       [cmd |-> "snd", arg |-> <<"env GOOS=openbsd GOARCH=", archMap[a], " ./mkall.sh\n">>],
       [cmd |-> "exp", arg |-> <<"buildlet\\$">>],
       [cmd |-> "snd", arg |-> <<"env GOOS=openbsd GOARCH=", archMap[a], " go test ./...\n">>],
       [cmd |-> "exp", arg |-> <<"buildlet\\$">>],
       [cmd |-> "snd", arg |-> <<"git diff | openssl enc -base64 >/tmp/sys.diff.b64\n">>],
       [cmd |-> "exp", arg |-> <<"buildlet\\$">>],
       [cmd |-> "snd", arg |-> <<"curl -d @/tmp/sys.diff.b64 http://10.0.2.2:25706/\n">>],
       [cmd |-> "exp", arg |-> <<"buildlet\\$">>],
       [cmd |-> "snd", arg |-> <<"\n">>] >>

ScriptLen == Len(Script("amd64"))

\* the script of every architecture of the table
ScriptOf == [a \in DOMAIN archMap |-> Script(a)]

\* per-step wait of an await: BExp carries no timeout of its own, so
\* ExpectBatch uses the timeout it was called with
StepTimeout == BatchTimeout

VARIABLES
    \* ---- Build (one call) ----
    release,    \* os.Args[1]
    o,          \* the target Build runs for
    pc,         \* Build's position
    defers,     \* stack of deferred calls, last registered first
    ret,        \* value Build is returning / has returned: "none", "nil", "err"
    termRaw,    \* the operator's terminal is in raw mode
    srvPc,      \* position of the goroutine running ser.ListenAndServe()
    inShutdown, \* ser.Close() has been called
    listening,  \* the server's listener is bound to :25706
    emu,        \* emulator process: "none", "running", "exited", "killed"
    diskPath,   \* where qemu-img created disk.raw (<<>>: not created)
    drivePath,  \* the disk the spawned emulator was given (<<>>: not spawned)
    ddFailed,   \* the overlay copy (dd) failed
    step,       \* next step of the script ExpectBatch will execute
    matched,    \* indexes of the await steps whose pattern matched
    sent,       \* indexes of the send steps written to the console, in order
    batchErr,   \* ExpectBatch's result: "none" (not finished), "nil", "err"
    waited,     \* minutes the current await has waited
    elapsed,    \* minutes since the emulator was spawned
    rawFailed,  \* term.MakeRaw returned an error
    imgFailed,  \* qemu-img create returned an error
    ddRan,      \* the overlay copy (dd) was run
    logs,       \* what the process has written to its log / stderr
    \* ---- main (the pipeline driver) ----
    argc,       \* len(os.Args)
    sets,       \* the target table after sets.Sort()
    idx,        \* index of the target the loop is at
    phase,      \* "main": at the start of main; the call main makes next:
                \* "Fetch", "Verify", "Build"; "done"; exited: "usage", "fatal"
    calls,      \* the calls made so far, with their results, in order
    \* ---- Fetch (one call) ----
    fIdx,       \* index in o.sets of the file the loop is at (0: before MkdirAll)
    fLocal,     \* what outDir holds for each file of the set
    fReq,       \* indexes of the files requested from the mirror
    f404,       \* indexes of the files the mirror answered 404 for
    fRet,       \* Fetch's result: "none" (running), "nil", "err"
    fHad,       \* indexes of the files outDir held when Fetch began
    \* ---- Verify (one call) ----
    vIdx,       \* index in o.sets of the file the loop is at
    vCwd,       \* files os.Stat found in the process's working directory
    vDir,       \* files seen to be present in outDir
    vInvoked,   \* the files signify was run on, in order
    vRet,       \* Verify's result: "none" (running), "nil", "err"
    \* ---- the POST handler of the control server ----
    resultFile, \* outDir/sys.diff.b64: whether it exists, and its content
    hPc,        \* position of each request's handler
    hBody,      \* the body each request carries
    hOff,       \* write offset of each handler's open file
    hRes,       \* response status of each request (0: none yet)
    order,      \* the requests in the order their handlers began
    overlap,    \* two handlers were active at the same time
    \* ---- the GET handler of the control server ----
    gDir,       \* names of the files outDir holds
    gPc,        \* where the request is: "idle", "mux", "handler", "done"
    gReq,       \* the path the client asked for
    gPath,      \* r.URL.Path of the request
    gRoute,     \* the branch that answered the request
    gResp       \* the response

commonVars == <<release, o>>

buildVars == <<pc, defers, ret, termRaw, srvPc, inShutdown, listening, emu,
               diskPath, drivePath, ddFailed, step, matched, sent, batchErr,
               waited, elapsed>>

\* what has happened in the Build call, and the log output
buildHist == <<rawFailed, imgFailed, ddRan, logs>>

driverVars == <<argc, sets, idx, phase, calls>>

fetchVars == <<fIdx, fLocal, fReq, f404, fRet, fHad>>

verifyVars == <<vIdx, vCwd, vDir, vInvoked, vRet>>

postVars == <<resultFile, hPc, hBody, hOff, hRes, order, overlap>>

getVars == <<gDir, gPc, gReq, gPath, gRoute, gResp>>

nonBuildVars == <<driverVars, fetchVars, verifyVars, postVars, getVars>>

\* what main leaves alone (main writes to the log)
nonDriverVars == <<o, buildVars, rawFailed, imgFailed, ddRan, fetchVars,
                   verifyVars, postVars, getVars>>

nonFetchVars == <<buildVars, buildHist, driverVars, verifyVars, postVars,
                  getVars>>

nonVerifyVars == <<buildVars, buildHist, driverVars, fetchVars, postVars,
                   getVars>>

nonPostVars == <<commonVars, buildVars, buildHist, driverVars, fetchVars,
                 verifyVars, getVars>>

\* what a GET leaves alone (the log is written by the handler)
nonGetVars == <<commonVars, buildVars, rawFailed, imgFailed, ddRan,
                driverVars, fetchVars, verifyVars, postVars>>

vars == <<commonVars, buildVars, buildHist, driverVars, fetchVars, verifyVars,
          postVars, getVars>>

TargetSet(r) == {Targets(r)[i] : i \in 1..Len(Targets(r))}

BuildInit ==
    /\ release \in Releases
    /\ o \in TargetSet(release)
    /\ pc = "MakeRaw"
    /\ defers = <<>>
    /\ ret = "none"
    /\ termRaw = FALSE
    /\ srvPc = "unborn"
    /\ inShutdown = FALSE
    /\ listening = FALSE
    /\ emu = "none"
    /\ diskPath = <<>>
    /\ drivePath = <<>>
    /\ ddFailed = FALSE
    /\ step = 1
    /\ matched = {}
    /\ sent = <<>>
    /\ batchErr = "none"
    /\ waited = 0
    /\ elapsed = 0
    /\ rawFailed = FALSE
    /\ imgFailed = FALSE
    /\ ddRan = FALSE
    /\ logs = <<>>

\* a return statement of Build: the deferred calls run next
Return(v) ==
    /\ ret' = v
    /\ pc' = "Defer"

\* term.MakeRaw fails: Build returns the error, nothing is deferred yet
MakeRawFail ==
    /\ pc = "MakeRaw"
    /\ Return("err")
    /\ UNCHANGED <<release, o, defers, termRaw, srvPc, inShutdown, listening,
                   emu, diskPath, drivePath, ddFailed, step, matched, sent,
                   batchErr, waited, elapsed>>
    /\ UNCHANGED nonBuildVars
    /\ rawFailed' = TRUE
    /\ UNCHANGED <<imgFailed, ddRan, logs>>

\* term.MakeRaw succeeds; defer term.Restore
MakeRawOk ==
    /\ pc = "MakeRaw"
    /\ termRaw' = TRUE
    /\ defers' = <<"Restore">> \o defers
    /\ pc' = "GoServe"
    /\ UNCHANGED <<release, o, ret, srvPc, inShutdown, listening, emu,
                   diskPath, drivePath, ddFailed, step, matched, sent,
                   batchErr, waited, elapsed>>
    /\ UNCHANGED nonBuildVars
    /\ UNCHANGED buildHist

\* go ser.ListenAndServe(); defer ser.Close()
GoServe ==
    /\ pc = "GoServe"
    /\ srvPc' = "start"
    /\ defers' = <<"SerClose">> \o defers
    /\ pc' = "ImgCreate"
    /\ UNCHANGED <<release, o, ret, termRaw, inShutdown, listening, emu,
                   diskPath, drivePath, ddFailed, step, matched, sent,
                   batchErr, waited, elapsed>>
    /\ UNCHANGED nonBuildVars
    /\ UNCHANGED buildHist

\* qemu-img create ... disk.raw 10G, run in outDir, succeeds
ImgCreateOk ==
    /\ pc = "ImgCreate"
    /\ diskPath' = Join(outDir(release, o.arch), <<"disk.raw">>)
    /\ pc' = "DD"
    /\ UNCHANGED <<release, o, defers, ret, termRaw, srvPc, inShutdown,
                   listening, emu, drivePath, ddFailed, step, matched, sent,
                   batchErr, waited, elapsed>>
    /\ UNCHANGED nonBuildVars
    /\ UNCHANGED buildHist

\* (mutant) the error of qemu-img is dropped, as the one of dd is
ImgCreateFailIgnored ==
    /\ pc = "ImgCreate"
    /\ pc' = "DD"
    /\ UNCHANGED <<release, o, defers, ret, termRaw, srvPc, inShutdown,
                   listening, emu, diskPath, drivePath, ddFailed, step,
                   matched, sent, batchErr, waited, elapsed>>
    /\ UNCHANGED nonBuildVars
    /\ imgFailed' = TRUE
    /\ UNCHANGED <<rawFailed, ddRan, logs>>

\* qemu-img fails: return fmt.Errorf("image creation faild ...")
ImgCreateFail ==
    /\ pc = "ImgCreate"
    /\ Return("err")
    /\ UNCHANGED <<release, o, defers, termRaw, srvPc, inShutdown, listening,
                   emu, diskPath, drivePath, ddFailed, step, matched, sent,
                   batchErr, waited, elapsed>>
    /\ UNCHANGED nonBuildVars
    /\ imgFailed' = TRUE
    /\ UNCHANGED <<rawFailed, ddRan, logs>>

\* ddcmd.Run(): the result is discarded
DD ==
    /\ pc = "DD"
    /\ ddFailed' \in BOOLEAN
    /\ pc' = "Spawn"
    /\ UNCHANGED <<release, o, defers, ret, termRaw, srvPc, inShutdown,
                   listening, emu, diskPath, drivePath, step, matched, sent,
                   batchErr, waited, elapsed>>
    /\ UNCHANGED nonBuildVars
    /\ ddRan' = TRUE
    /\ UNCHANGED <<rawFailed, imgFailed, logs>>

\* expect.SpawnWithArgs succeeds; defer qemucmd.Close()
SpawnOk ==
    /\ pc = "Spawn"
    /\ emu' = "running"
    /\ drivePath' = o.drive
    /\ defers' = <<"QemuClose">> \o defers
    /\ pc' = "Dialogue"
    /\ UNCHANGED <<release, o, ret, termRaw, srvPc, inShutdown, listening,
                   diskPath, ddFailed, step, matched, sent, batchErr, waited,
                   elapsed>>
    /\ UNCHANGED nonBuildVars
    /\ UNCHANGED buildHist

\* expect.SpawnWithArgs fails: return err
SpawnFail ==
    /\ pc = "Spawn"
    /\ Return("err")
    /\ UNCHANGED <<release, o, defers, termRaw, srvPc, inShutdown, listening,
                   emu, diskPath, drivePath, ddFailed, step, matched, sent,
                   batchErr, waited, elapsed>>
    /\ UNCHANGED nonBuildVars
    /\ UNCHANGED buildHist

\* ---- ExpectBatch: the steps of the script, in order ----

AtStep(c) ==
    /\ pc = "Dialogue"
    /\ step <= ScriptLen
    /\ ScriptOf[o.arch][step].cmd = c

\* an await whose pattern shows up in the console output before its timer fires
ExpectMatch ==
    /\ AtStep("exp")
    /\ emu = "running"
    /\ waited < StepTimeout
    /\ matched' = matched \cup {step}
    /\ step' = step + 1
    /\ waited' = 0
    /\ UNCHANGED <<release, o, pc, defers, ret, termRaw, srvPc, inShutdown,
                   listening, emu, diskPath, drivePath, ddFailed, sent,
                   batchErr, elapsed>>
    /\ UNCHANGED nonBuildVars
    /\ UNCHANGED buildHist

\* an await keeps waiting: time passes without the pattern
ExpectWait ==
    /\ AtStep("exp")
    /\ emu = "running"
    /\ waited < StepTimeout
    /\ waited' = waited + TickMinutes
    /\ elapsed' = elapsed + TickMinutes
    /\ UNCHANGED <<release, o, pc, defers, ret, termRaw, srvPc, inShutdown,
                   listening, emu, diskPath, drivePath, ddFailed, step,
                   matched, sent, batchErr>>
    /\ UNCHANGED nonBuildVars
    /\ UNCHANGED buildHist

\* what Build does with a failed ExpectBatch: "_, _ = qemucmd.ExpectBatch(...)"
\* drops the error and the next statement is "return nil"
BatchFailed ==
    /\ batchErr' = "err"
    /\ Return("nil")

\* (mutant) a timed-out await is passed over and the batch goes on
ExpectTimeoutSkips ==
    /\ AtStep("exp")
    /\ emu = "running"
    /\ waited >= StepTimeout
    /\ step' = step + 1
    /\ waited' = 0
    /\ UNCHANGED <<release, o, pc, defers, ret, termRaw, srvPc, inShutdown,
                   listening, emu, diskPath, drivePath, ddFailed, matched,
                   sent, batchErr, elapsed>>
    /\ UNCHANGED nonBuildVars
    /\ UNCHANGED buildHist

\* the await's timer fires: Expect returns a timeout error, ExpectBatch
\* returns it without executing any later step
ExpectTimeout ==
    /\ AtStep("exp")
    /\ emu = "running"
    /\ waited >= StepTimeout
    /\ BatchFailed
    /\ UNCHANGED <<release, o, defers, termRaw, srvPc, inShutdown, listening,
                   emu, diskPath, drivePath, ddFailed, step, matched, sent,
                   waited, elapsed>>
    /\ UNCHANGED nonBuildVars
    /\ UNCHANGED buildHist

\* the emulator process ends by itself during the dialogue
EmuExit ==
    /\ pc = "Dialogue"
    /\ emu = "running"
    /\ emu' = "exited"
    /\ UNCHANGED <<release, o, pc, defers, ret, termRaw, srvPc, inShutdown,
                   listening, diskPath, drivePath, ddFailed, step, matched,
                   sent, batchErr, waited, elapsed>>
    /\ UNCHANGED nonBuildVars
    /\ UNCHANGED buildHist

\* Expect or Send on a process that is not running returns an error
StepOnDeadProcess ==
    /\ pc = "Dialogue"
    /\ step <= ScriptLen
    /\ emu = "exited"
    /\ BatchFailed
    /\ UNCHANGED <<release, o, defers, termRaw, srvPc, inShutdown, listening,
                   emu, diskPath, drivePath, ddFailed, step, matched, sent,
                   waited, elapsed>>
    /\ UNCHANGED nonBuildVars
    /\ UNCHANGED buildHist

\* a send step writes its line to the console and does not wait
Send ==
    /\ AtStep("snd")
    /\ emu = "running"
    /\ sent' = Append(sent, step)
    /\ step' = step + 1
    /\ UNCHANGED <<release, o, pc, defers, ret, termRaw, srvPc, inShutdown,
                   listening, emu, diskPath, drivePath, ddFailed, matched,
                   batchErr, waited, elapsed>>
    /\ UNCHANGED nonBuildVars
    /\ UNCHANGED buildHist

\* (mutant) the batch ends one step early
BatchDoneEarly ==
    /\ pc = "Dialogue"
    /\ step = ScriptLen
    /\ batchErr' = "nil"
    /\ Return("nil")
    /\ UNCHANGED <<release, o, defers, termRaw, srvPc, inShutdown, listening,
                   emu, diskPath, drivePath, ddFailed, step, matched, sent,
                   waited, elapsed>>
    /\ UNCHANGED nonBuildVars
    /\ UNCHANGED buildHist

\* every step executed: ExpectBatch returns nil, Build returns nil
BatchDone ==
    /\ pc = "Dialogue"
    /\ step = ScriptLen + 1
    /\ batchErr' = "nil"
    /\ Return("nil")
    /\ UNCHANGED <<release, o, defers, termRaw, srvPc, inShutdown, listening,
                   emu, diskPath, drivePath, ddFailed, step, matched, sent,
                   waited, elapsed>>
    /\ UNCHANGED nonBuildVars
    /\ UNCHANGED buildHist

\* ---- the deferred calls, run last-registered-first when Build returns ----

\* qemucmd.Close(): kills the emulator process
DeferQemuClose ==
    /\ pc = "Defer"
    /\ defers # <<>>
    /\ Head(defers) = "QemuClose"
    /\ emu' = IF emu = "running" THEN "killed" ELSE emu
    /\ defers' = Tail(defers)
    /\ UNCHANGED <<release, o, pc, ret, termRaw, srvPc, inShutdown, listening,
                   diskPath, drivePath, ddFailed, step, matched, sent,
                   batchErr, waited, elapsed>>
    /\ UNCHANGED nonBuildVars
    /\ UNCHANGED buildHist

\* ser.Close(): marks the server shut down and closes the listeners it tracks
DeferSerClose ==
    /\ pc = "Defer"
    /\ defers # <<>>
    /\ Head(defers) = "SerClose"
    /\ inShutdown' = TRUE
    /\ listening' = IF srvPc = "serving" THEN FALSE ELSE listening
    /\ defers' = Tail(defers)
    /\ UNCHANGED <<release, o, pc, ret, termRaw, srvPc, emu, diskPath,
                   drivePath, ddFailed, step, matched, sent, batchErr, waited,
                   elapsed>>
    /\ UNCHANGED nonBuildVars
    /\ UNCHANGED buildHist

\* term.Restore(fd, oldState)
DeferRestore ==
    /\ pc = "Defer"
    /\ defers # <<>>
    /\ Head(defers) = "Restore"
    /\ termRaw' = FALSE
    /\ defers' = Tail(defers)
    /\ UNCHANGED <<release, o, pc, ret, srvPc, inShutdown, listening, emu,
                   diskPath, drivePath, ddFailed, step, matched, sent,
                   batchErr, waited, elapsed>>
    /\ UNCHANGED nonBuildVars
    /\ UNCHANGED buildHist

\* Build has returned to its caller
BuildReturn ==
    /\ pc = "Defer"
    /\ defers = <<>>
    /\ pc' = "Returned"
    /\ UNCHANGED <<release, o, defers, ret, termRaw, srvPc, inShutdown,
                   listening, emu, diskPath, drivePath, ddFailed, step,
                   matched, sent, batchErr, waited, elapsed>>
    /\ UNCHANGED nonBuildVars
    /\ UNCHANGED buildHist

\* ---- the goroutine started by "go ser.ListenAndServe()" ----

\* ListenAndServe begins: a server already shut down returns ErrServerClosed
SrvEnter ==
    /\ srvPc = "start"
    /\ srvPc' = IF inShutdown THEN "exited" ELSE "listen"
    /\ UNCHANGED <<release, o, pc, defers, ret, termRaw, inShutdown,
                   listening, emu, diskPath, drivePath, ddFailed, step,
                   matched, sent, batchErr, waited, elapsed>>
    /\ UNCHANGED nonBuildVars
    /\ UNCHANGED buildHist

\* net.Listen("tcp", ":25706") binds the port
SrvListenOk ==
    /\ srvPc = "listen"
    /\ listening' = TRUE
    /\ srvPc' = "track"
    /\ UNCHANGED <<release, o, pc, defers, ret, termRaw, inShutdown, emu,
                   diskPath, drivePath, ddFailed, step, matched, sent,
                   batchErr, waited, elapsed>>
    /\ UNCHANGED nonBuildVars
    /\ UNCHANGED buildHist

\* net.Listen fails (the port is taken): ListenAndServe returns the error,
\* which nobody reads
SrvListenFail ==
    /\ srvPc = "listen"
    /\ srvPc' = "exited"
    /\ UNCHANGED <<release, o, pc, defers, ret, termRaw, inShutdown,
                   listening, emu, diskPath, drivePath, ddFailed, step,
                   matched, sent, batchErr, waited, elapsed>>
    /\ UNCHANGED nonBuildVars
    /\ UNCHANGED buildHist

\* Serve registers the listener, unless the server was shut down meanwhile:
\* then Serve returns and its deferred l.Close() releases the port
SrvTrack ==
    /\ srvPc = "track"
    /\ IF inShutdown
         THEN /\ listening' = FALSE
              /\ srvPc' = "exited"
         ELSE /\ srvPc' = "serving"
              /\ UNCHANGED listening
    /\ UNCHANGED <<release, o, pc, defers, ret, termRaw, inShutdown, emu,
                   diskPath, drivePath, ddFailed, step, matched, sent,
                   batchErr, waited, elapsed>>
    /\ UNCHANGED nonBuildVars
    /\ UNCHANGED buildHist

\* Accept fails on the closed listener: Serve returns ErrServerClosed
SrvAcceptErr ==
    /\ srvPc = "serving"
    /\ inShutdown
    /\ srvPc' = "exited"
    /\ UNCHANGED <<release, o, pc, defers, ret, termRaw, inShutdown,
                   listening, emu, diskPath, drivePath, ddFailed, step,
                   matched, sent, batchErr, waited, elapsed>>
    /\ UNCHANGED nonBuildVars
    /\ UNCHANGED buildHist

\* the variables of Build while no Build call is modelled
BuildIdle ==
    /\ pc = "idle"
    /\ defers = <<>>
    /\ ret = "none"
    /\ termRaw = FALSE
    /\ srvPc = "unborn"
    /\ inShutdown = FALSE
    /\ listening = FALSE
    /\ emu = "none"
    /\ diskPath = <<>>
    /\ drivePath = <<>>
    /\ ddFailed = FALSE
    /\ step = 1
    /\ matched = {}
    /\ sent = <<>>
    /\ batchErr = "none"
    /\ waited = 0
    /\ elapsed = 0
    /\ rawFailed = FALSE
    /\ imgFailed = FALSE
    /\ ddRan = FALSE
    /\ logs = <<>>

DriverIdle ==
    /\ argc = 0
    /\ sets = <<>>
    /\ idx = 0
    /\ phase = "idle"
    /\ calls = <<>>

FetchIdle ==
    /\ fIdx = 0
    /\ fLocal = <<>>
    /\ fReq = {}
    /\ f404 = {}
    /\ fRet = "none"
    /\ fHad = {}

VerifyIdle ==
    /\ vIdx = 0
    /\ vCwd = {}
    /\ vDir = {}
    /\ vInvoked = <<>>
    /\ vRet = "none"

PostIdle ==
    /\ resultFile = [exists |-> FALSE, data |-> <<>>]
    /\ hPc = <<>>
    /\ hBody = <<>>
    /\ hOff = <<>>
    /\ hRes = <<>>
    /\ order = <<>>
    /\ overlap = FALSE

GetIdle ==
    /\ gDir = {}
    /\ gPc = "idle"
    /\ gReq = <<>>
    /\ gPath = <<>>
    /\ gRoute = "none"
    /\ gResp = [status |-> 0, kind |-> "none"]

Init ==
    /\ BuildInit
    /\ DriverIdle
    /\ FetchIdle
    /\ VerifyIdle
    /\ PostIdle
    /\ GetIdle

Next ==
    \/ MakeRawFail \/ MakeRawOk \/ GoServe
    \/ ImgCreateOk \/ ImgCreateFail \/ DD \/ SpawnOk \/ SpawnFail
    \/ ExpectMatch \/ ExpectWait \/ ExpectTimeout \/ EmuExit
    \/ StepOnDeadProcess \/ Send \/ BatchDone
    \/ DeferQemuClose \/ DeferSerClose \/ DeferRestore \/ BuildReturn
    \/ SrvEnter \/ SrvListenOk \/ SrvListenFail \/ SrvTrack \/ SrvAcceptErr

\* one Build call, with the server goroutine interleaved
Spec == Init /\ [][Next]_vars

(***************************************************************************)
(* main: the pipeline driver.                                              *)
(***************************************************************************)

\* the bytes of the architecture names, which sets.Sort() compares
ArchBytes ==
    [a \in DOMAIN archMap |->
        CASE a = "arm64"   -> <<97, 114, 109, 54, 52>>
          [] a = "amd64"   -> <<97, 109, 100, 54, 52>>
          [] a = "i386"    -> <<105, 51, 56, 54>>
          [] a = "octeon"  -> <<111, 99, 116, 101, 111, 110>>
          [] a = "armv7"   -> <<97, 114, 109, 118, 55>>
          [] a = "riscv64" -> <<114, 105, 115, 99, 118, 54, 52>>]

\* Go's string "<": bytewise lexicographic order
RECURSIVE BytesLess(_, _)
BytesLess(x, y) ==
    IF y = <<>> THEN FALSE
    ELSE IF x = <<>> THEN TRUE
    ELSE IF Head(x) # Head(y) THEN Head(x) < Head(y)
    ELSE BytesLess(Tail(x), Tail(y))

\* the less function given to sort.Slice: s[i].arch < s[j].arch
ArchLess(t, u) == BytesLess(ArchBytes[t.arch], ArchBytes[u.arch])

\* insert t into the sorted sequence s
RECURSIVE InsertSorted(_, _)
InsertSorted(t, s) ==
    IF s = <<>> THEN <<t>>
    ELSE IF ArchLess(t, Head(s)) THEN <<t>> \o s
    ELSE <<Head(s)>> \o InsertSorted(t, Tail(s))

\* Sets.Sort(): the table ordered by architecture name (the names are
\* distinct, so the order is unique)
RECURSIVE Sort(_)
Sort(s) == IF s = <<>> THEN <<>> ELSE InsertSorted(Head(s), Sort(Tail(s)))

StepNames == <<"Fetch", "Verify", "Build">>

\* the values of len(os.Args): the program name with no, one or two arguments
ArgCounts == {1, 2, 3}

\* the process at the first statement of main; release is os.Args[1]
DriverInit ==
    /\ argc \in ArgCounts
    /\ release \in Releases
    /\ o = <<>>
    /\ sets = <<>>
    /\ idx = 0
    /\ phase = "main"
    /\ calls = <<>>

\* log.Printf / log.Fatal write a line to the standard logger
LogLine(lg, line) == Append(lg, line)

\* log.Fatal(err): the error is logged and the process exits; lg is the log
\* so far, from the name of the call that returned the error
Fatal(lg, from) ==
    /\ phase' = "fatal"
    /\ logs' = LogLine(lg, [about |-> "Fatal", err |-> from])

\* if len(os.Args) != 2 { usage() }: the usage line is printed to standard
\* output and the process exits with status 1
MainUsage ==
    /\ phase = "main"
    /\ argc # 2
    /\ phase' = "usage"
    /\ UNCHANGED <<release, argc, sets, idx, calls, logs>>
    /\ UNCHANGED nonDriverVars

\* os.MkdirAll(dest, 0750) returned an error other than "exists"
MainMkdirFail ==
    /\ phase = "main"
    /\ argc = 2
    /\ Fatal(logs, "MkdirAll")
    /\ UNCHANGED <<release, argc, sets, idx, calls>>
    /\ UNCHANGED nonDriverVars

\* dest is in place: the table is built and sorted, the loop begins
MainStart ==
    /\ phase = "main"
    /\ argc = 2
    /\ sets' = Sort(Targets(release))
    /\ idx' = 1
    /\ phase' = "Fetch"
    /\ UNCHANGED <<release, argc, calls, logs>>
    /\ UNCHANGED nonDriverVars

\* a call of main's loop body returned result r ("nil" or "err")
Called(name, r) ==
    calls' = Append(calls, [arch |-> sets[idx].arch, step |-> name, res |-> r])

\* log.Printf("Fetching sets for %s\n", set.arch)
Fetching(lg) == LogLine(lg, [about |-> "Fetching sets for", arch |-> sets[idx].arch])

\* (mutant) the error of Fetch is not looked at
CallFetchIgnoresErr ==
    /\ phase = "Fetch"
    /\ \E r \in {"nil", "err"} :
          /\ Called("Fetch", r)
          /\ phase' = "Verify"
          /\ logs' = Fetching(logs)
    /\ UNCHANGED <<release, argc, sets, idx>>
    /\ UNCHANGED nonDriverVars

\* log.Printf(...); err = set.Fetch(dest, release);
\* if err != nil { log.Fatal(err) }
CallFetch ==
    /\ phase = "Fetch"
    /\ \E r \in {"nil", "err"} :
          /\ Called("Fetch", r)
          /\ IF r = "err"
               THEN Fatal(Fetching(logs), "Fetch")
               ELSE phase' = "Verify" /\ logs' = Fetching(logs)
    /\ UNCHANGED <<release, argc, sets, idx>>
    /\ UNCHANGED nonDriverVars

\* err = set.Verify(dest, release, smushVer); if err != nil { log.Fatal(err) }
CallVerify ==
    /\ phase = "Verify"
    /\ \E r \in {"nil", "err"} :
          /\ Called("Verify", r)
          /\ IF r = "err"
               THEN Fatal(logs, "Verify")
               ELSE phase' = "Build" /\ UNCHANGED logs
    /\ UNCHANGED <<release, argc, sets, idx>>
    /\ UNCHANGED nonDriverVars

\* err = set.Build(dest, release, smushVer); if err != nil { log.Fatal(err) };
\* then the loop goes to the next target, or ends
CallBuild ==
    /\ phase = "Build"
    /\ \E r \in {"nil", "err"} :
          /\ Called("Build", r)
          /\ IF r = "err"
               THEN Fatal(logs, "Build") /\ UNCHANGED idx
               ELSE /\ idx' = idx + 1
                    /\ phase' = IF idx < Len(sets) THEN "Fetch" ELSE "done"
                    /\ UNCHANGED logs
    /\ UNCHANGED <<release, argc, sets>>
    /\ UNCHANGED nonDriverVars

DriverSpecInit ==
    /\ DriverInit
    /\ BuildIdle
    /\ FetchIdle
    /\ VerifyIdle
    /\ PostIdle
    /\ GetIdle

DriverNext ==
    \/ MainUsage \/ MainMkdirFail \/ MainStart
    \/ CallFetch \/ CallVerify \/ CallBuild

\* main, from its first statement to the end of the process
DriverSpec == DriverSpecInit /\ [][DriverNext]_vars

(***************************************************************************)
(* Fetch.  A file in outDir is "absent", "old" (there before Fetch),       *)
(* "mirror" (the body of a 200 response), "errpage" (the body of a         *)
(* response with another status) or "partial" (a copy that broke off).     *)
(***************************************************************************)

\* the statuses the mirror answers with
MirrorStatuses == {200, 403, 404}

NumFiles == Len(SetTemplates)

FetchInit ==
    /\ release \in Releases
    /\ o \in TargetSet(release)
    /\ fIdx = 0
    /\ fLocal \in {l \in [1..NumFiles -> {"absent", "old"}] :
                      Cardinality({i \in 1..NumFiles : l[i] = "absent"}) <= MaxMissing}
    /\ fReq = {}
    /\ f404 = {}
    /\ fRet = "none"
    /\ fHad = {i \in 1..NumFiles : fLocal[i] = "old"}

\* os.MkdirAll(outDir, 0750)
FetchMkdirAll ==
    /\ fRet = "none"
    /\ fIdx = 0
    /\ \E ok \in BOOLEAN :
          IF ok THEN fIdx' = 1 /\ UNCHANGED fRet
                ELSE fRet' = "err" /\ UNCHANGED fIdx
    /\ UNCHANGED <<commonVars, fLocal, fReq, f404>>
    /\ UNCHANGED <<fHad, nonFetchVars>>

\* the loop is at file fIdx
InFetchLoop ==
    /\ fRet = "none"
    /\ fIdx \in 1..Len(o.sets)

\* (mutant) only missing files are fetched
NeedsFetchMissingOnly(i) == fLocal[i] = "absent"

\* file == "SHA256.sig" || os.IsNotExist(err)
NeedsFetch(i) == o.sets[i] = <<"SHA256.sig">> \/ fLocal[i] = "absent"

\* the file is there and is not SHA256.sig: nothing is done for it
FetchKeepLocal ==
    /\ InFetchLoop
    /\ ~NeedsFetch(fIdx)
    /\ fIdx' = fIdx + 1
    /\ UNCHANGED <<commonVars, fLocal, fReq, f404, fRet>>
    /\ UNCHANGED <<fHad, nonFetchVars>>

\* http.Get fails: return err
FetchGetError ==
    /\ InFetchLoop
    /\ NeedsFetch(fIdx)
    /\ fReq' = fReq \cup {fIdx}
    /\ fRet' = "err"
    /\ UNCHANGED <<commonVars, fIdx, fLocal, f404>>
    /\ UNCHANGED <<fHad, nonFetchVars>>

\* (mutant) a 404 is fatal for every file, bsd.mp included
FetchNotFoundAlwaysFatal ==
    /\ InFetchLoop
    /\ NeedsFetch(fIdx)
    /\ fReq' = fReq \cup {fIdx}
    /\ f404' = f404 \cup {fIdx}
    /\ fRet' = "err"
    /\ UNCHANGED <<commonVars, fIdx, fLocal>>
    /\ UNCHANGED <<fHad, nonFetchVars>>

\* the mirror answers 404: fatal, except for bsd.mp, which is skipped
FetchNotFound ==
    /\ InFetchLoop
    /\ NeedsFetch(fIdx)
    /\ fReq' = fReq \cup {fIdx}
    /\ f404' = f404 \cup {fIdx}
    /\ IF o.sets[fIdx] # <<"bsd.mp">>
         THEN fRet' = "err" /\ UNCHANGED fIdx
         ELSE fIdx' = fIdx + 1 /\ UNCHANGED fRet
    /\ UNCHANGED <<commonVars, fLocal>>
    /\ UNCHANGED <<fHad, nonFetchVars>>

\* any other status: os.Create(fp) fails, return err
FetchCreateFail ==
    /\ InFetchLoop
    /\ NeedsFetch(fIdx)
    /\ \E st \in MirrorStatuses \ {404} :
          /\ fReq' = fReq \cup {fIdx}
          /\ fRet' = "err"
    /\ UNCHANGED <<commonVars, fIdx, fLocal, f404>>
    /\ UNCHANGED <<fHad, nonFetchVars>>

\* any other status: the file is created (truncated) and io.Copy breaks off
FetchCopyFail ==
    /\ InFetchLoop
    /\ NeedsFetch(fIdx)
    /\ \E st \in MirrorStatuses \ {404} :
          /\ fReq' = fReq \cup {fIdx}
          /\ fLocal' = [fLocal EXCEPT ![fIdx] = "partial"]
          /\ fRet' = "err"
    /\ UNCHANGED <<commonVars, fIdx, f404>>
    /\ UNCHANGED <<fHad, nonFetchVars>>

\* what io.Copy leaves in the file for a response of status st
BodyOf(st) == IF st = 200 THEN "mirror" ELSE "errpage"

\* any other status: the response body is written to the file
FetchStore ==
    /\ InFetchLoop
    /\ NeedsFetch(fIdx)
    /\ \E st \in MirrorStatuses \ {404} :
          /\ fReq' = fReq \cup {fIdx}
          /\ fLocal' = [fLocal EXCEPT ![fIdx] = BodyOf(st)]
          /\ fIdx' = fIdx + 1
    /\ UNCHANGED <<commonVars, f404, fRet>>
    /\ UNCHANGED <<fHad, nonFetchVars>>

\* the loop is over: return nil
FetchReturn ==
    /\ fRet = "none"
    /\ fIdx = Len(o.sets) + 1
    /\ fRet' = "nil"
    /\ UNCHANGED <<commonVars, fIdx, fLocal, fReq, f404>>
    /\ UNCHANGED <<fHad, nonFetchVars>>

FetchSpecInit ==
    /\ FetchInit
    /\ BuildIdle
    /\ DriverIdle
    /\ VerifyIdle
    /\ PostIdle
    /\ GetIdle

FetchNext ==
    \/ FetchMkdirAll \/ FetchKeepLocal \/ FetchGetError \/ FetchNotFound
    \/ FetchCreateFail \/ FetchCopyFail \/ FetchStore \/ FetchReturn

\* one Fetch call
FetchSpec == FetchSpecInit /\ [][FetchNext]_vars

(***************************************************************************)
(* Verify.  The file system is only read, so what os.Stat and signify find *)
(* for a file is decided when the loop reaches the file.                   *)
(***************************************************************************)

IsMetadata(name) == name = <<"SHA256">> \/ name = <<"SHA256.sig">>

VerifyInit ==
    /\ release \in Releases
    /\ o \in TargetSet(release)
    /\ vIdx = 1
    /\ vCwd = {}
    /\ vDir = {}
    /\ vInvoked = <<>>
    /\ vRet = "none"

InVerifyLoop ==
    /\ vRet = "none"
    /\ vIdx \in 1..Len(o.sets)

\* what is learnt about the presence in outDir of the file the loop is at
\* (kept for the files Verify is meant to check)
SeenInDir(inDir) ==
    vDir' = IF inDir /\ ~IsMetadata(o.sets[vIdx]) THEN vDir \cup {vIdx} ELSE vDir

\* os.Stat(file), resolved against the process's working directory, reports
\* that the file does not exist: the file is passed over
VerifyNotInCwd ==
    /\ InVerifyLoop
    /\ \E inDir \in BOOLEAN : SeenInDir(inDir)
    /\ vIdx' = vIdx + 1
    /\ UNCHANGED <<commonVars, vCwd, vInvoked, vRet>>
    /\ UNCHANGED nonVerifyVars

\* os.Stat finds SHA256 or SHA256.sig: continue
VerifyMetadata ==
    /\ InVerifyLoop
    /\ IsMetadata(o.sets[vIdx])
    /\ vIdx' = vIdx + 1
    /\ UNCHANGED <<commonVars, vCwd, vDir, vInvoked, vRet>>
    /\ UNCHANGED nonVerifyVars

\* os.Stat finds the file; signify, run in outDir, exits zero
VerifyPass ==
    /\ InVerifyLoop
    /\ ~IsMetadata(o.sets[vIdx])
    /\ vCwd' = vCwd \cup {vIdx}
    /\ SeenInDir(TRUE)
    /\ vInvoked' = Append(vInvoked, vIdx)
    /\ vIdx' = vIdx + 1
    /\ UNCHANGED <<commonVars, vRet>>
    /\ UNCHANGED nonVerifyVars

\* os.Stat finds the file; signify exits non-zero (bad signature, or no
\* such file in outDir): return the error
VerifyReject ==
    /\ InVerifyLoop
    /\ ~IsMetadata(o.sets[vIdx])
    /\ vCwd' = vCwd \cup {vIdx}
    /\ \E inDir \in BOOLEAN : SeenInDir(inDir)
    /\ vInvoked' = Append(vInvoked, vIdx)
    /\ vRet' = "err"
    /\ UNCHANGED <<commonVars, vIdx>>
    /\ UNCHANGED nonVerifyVars

\* the loop is over: return nil
VerifyReturn ==
    /\ vRet = "none"
    /\ vIdx = Len(o.sets) + 1
    /\ vRet' = "nil"
    /\ UNCHANGED <<commonVars, vIdx, vCwd, vDir, vInvoked>>
    /\ UNCHANGED nonVerifyVars

VerifySpecInit ==
    /\ VerifyInit
    /\ BuildIdle
    /\ DriverIdle
    /\ FetchIdle
    /\ PostIdle
    /\ GetIdle

VerifyNext ==
    \/ VerifyNotInCwd \/ VerifyMetadata \/ VerifyPass \/ VerifyReject
    \/ VerifyReturn

\* one Verify call
VerifySpec == VerifySpecInit /\ [][VerifyNext]_vars

(***************************************************************************)
(* The POST handler of the control server.  Each request is served by its  *)
(* own goroutine; the handler opens the result file with os.Create and     *)
(* copies the body into it chunk by chunk at its own file offset.          *)
(***************************************************************************)

Reqs == {1, 2}

Chunks == {"x", "y"}

\* what a write past the end of the file leaves in the gap
Hole == "0"

Bodies == UNION {[1..n -> Chunks] : n \in 0..MaxBody}

PostInit ==
    /\ release \in Releases
    /\ o \in TargetSet(release)
    /\ resultFile \in {[exists |-> FALSE, data |-> <<>>]}
                        \cup {[exists |-> TRUE, data |-> b] : b \in Bodies}
    /\ hPc = [r \in Reqs |-> "new"]
    /\ hBody \in [Reqs -> Bodies]
    /\ hOff = [r \in Reqs |-> 0]
    /\ hRes = [r \in Reqs |-> 0]
    /\ order = <<>>
    /\ overlap = FALSE

\* a handler holds the result file open
Active(r) == hPc[r] = "copy"

\* write chunk c at offset off (counted from 0) of a file holding data
WriteAt(data, off, c) ==
    [i \in 1..(IF off + 1 > Len(data) THEN off + 1 ELSE Len(data)) |->
        IF i = off + 1 THEN c
        ELSE IF i <= Len(data) THEN data[i]
        ELSE Hole]

\* (mutant) the file is opened without truncating it
OpenKeepsContent(f) == [exists |-> TRUE, data |-> f.data]

\* os.Create: the file is created, or truncated if it exists
Create(f) == [exists |-> TRUE, data |-> <<>>]

\* os.Create(path.Join(outDir, "sys.diff.b64")) succeeds
PostCreate(r) ==
    /\ hPc[r] = "new"
    /\ resultFile' = Create(resultFile)
    /\ hPc' = [hPc EXCEPT ![r] = "copy"]
    /\ hOff' = [hOff EXCEPT ![r] = 0]
    /\ order' = Append(order, r)
    /\ overlap' = (overlap \/ \E q \in Reqs \ {r} : Active(q))
    /\ UNCHANGED <<hBody, hRes>>
    /\ UNCHANGED nonPostVars

\* os.Create fails: http.Error(..., 500)
PostCreateFail(r) ==
    /\ hPc[r] = "new"
    /\ hPc' = [hPc EXCEPT ![r] = "done"]
    /\ hRes' = [hRes EXCEPT ![r] = 500]
    /\ order' = Append(order, r)
    /\ UNCHANGED <<resultFile, hBody, hOff, overlap>>
    /\ UNCHANGED nonPostVars

\* io.Copy writes the next chunk of the body at the handler's offset
PostCopyChunk(r) ==
    /\ hPc[r] = "copy"
    /\ hOff[r] < Len(hBody[r])
    /\ resultFile' = [resultFile EXCEPT
                         !.data = WriteAt(@, hOff[r], hBody[r][hOff[r] + 1])]
    /\ hOff' = [hOff EXCEPT ![r] = hOff[r] + 1]
    /\ UNCHANGED <<hPc, hBody, hRes, order, overlap>>
    /\ UNCHANGED nonPostVars

\* io.Copy fails reading the body: http.Error(..., 500), the file is closed
PostCopyFail(r) ==
    /\ hPc[r] = "copy"
    /\ hOff[r] < Len(hBody[r])
    /\ hPc' = [hPc EXCEPT ![r] = "done"]
    /\ hRes' = [hRes EXCEPT ![r] = 500]
    /\ UNCHANGED <<resultFile, hBody, hOff, order, overlap>>
    /\ UNCHANGED nonPostVars

\* io.Copy reached the end of the body: the handler returns, the file is
\* closed, the response is 200
PostFinish(r) ==
    /\ hPc[r] = "copy"
    /\ hOff[r] = Len(hBody[r])
    /\ hPc' = [hPc EXCEPT ![r] = "done"]
    /\ hRes' = [hRes EXCEPT ![r] = 200]
    /\ UNCHANGED <<resultFile, hBody, hOff, order, overlap>>
    /\ UNCHANGED nonPostVars

PostSpecInit ==
    /\ PostInit
    /\ BuildIdle
    /\ DriverIdle
    /\ FetchIdle
    /\ VerifyIdle
    /\ GetIdle

PostNext ==
    \/ \E r \in Reqs : PostCreate(r)
    \/ \E r \in Reqs : PostCreateFail(r)
    \/ \E r \in Reqs : PostCopyChunk(r)
    \/ \E r \in Reqs : PostCopyFail(r)
    \/ \E r \in Reqs : PostFinish(r)

\* two POST requests to the control server
PostSpec == PostSpecInit /\ [][PostNext]_vars

(***************************************************************************)
(* The GET handler of the control server.  Request paths and file names    *)
(* are sequences of characters.  outDir is a flat directory of files.      *)
(***************************************************************************)

\* unexpected requests the log holds before the model stops taking requests
MaxLogged == 2

Slash == "/"

S_pub == <<"/", "p", "u", "b">>

S_disklabel == <<"/", "d", "i", "s", "k", "l", "a", "b", "e", "l">>

S_installconf == <<"/", "i", "n", "s", "t", "a", "l", "l", ".", "c", "o", "n", "f">>

S_indexPage == <<"/", "i", "n", "d", "e", "x", ".", "h", "t", "m", "l">>

\* file names used in requests and in outDir
N_bsd == <<"b", "s", "d">>

N_sha == <<"S", "H", "A", "2", "5", "6">>

N_index == <<"i", "n", "d", "e", "x", ".", "h", "t", "m", "l">>

FileNames == {N_bsd, N_sha, N_index}

\* what comes before the file name in a request path
PathPrefixes ==
    { <<"/", "p", "u", "b", "/">>,
      <<"/", "p", "u", "b">>,
      <<"/">>,
      <<"/", "p", "u", "b", "/", ".", ".", "/">>,
      <<"/", "p", "u", "b", "/", "/">> }

RequestPaths ==
    {pre \o n : pre \in PathPrefixes, n \in FileNames \cup {<<>>}}
        \cup {S_disklabel, S_installconf}

\* strings.HasPrefix
HasPrefix(str, pre) ==
    Len(str) >= Len(pre) /\ SubSeq(str, 1, Len(pre)) = pre

\* strings.HasSuffix
HasSuffix(str, suf) ==
    Len(str) >= Len(suf) /\ SubSeq(str, Len(str) - Len(suf) + 1, Len(str)) = suf

\* strings.Replace(str, old, new, 1): the first occurrence of old is replaced
Replace1(str, old, new) ==
    LET occ == {i \in 1..(Len(str) - Len(old) + 1) :
                    SubSeq(str, i, i + Len(old) - 1) = old}
    IN  IF occ = {} THEN str
        ELSE LET i == CHOOSE k \in occ : \A m \in occ : k <= m
             IN  SubSeq(str, 1, i - 1) \o new \o SubSeq(str, i + Len(old), Len(str))

\* the elements of a path between its slashes, empty ones included
RECURSIVE SplitFrom(_, _)
SplitFrom(str, cur) ==
    IF str = <<>> THEN <<cur>>
    ELSE IF Head(str) = Slash THEN <<cur>> \o SplitFrom(Tail(str), <<>>)
    ELSE SplitFrom(Tail(str), Append(cur, Head(str)))

\* path.Clean of a rooted path, as its list of elements: empty elements and
\* "." are dropped, ".." removes the element before it (none at the root)
RECURSIVE CleanElems(_, _)
CleanElems(elems, acc) ==
    IF elems = <<>> THEN acc
    ELSE LET e == Head(elems)
         IN  IF e = <<>> \/ e = <<".">> THEN CleanElems(Tail(elems), acc)
             ELSE IF e = <<".", ".">>
                    THEN CleanElems(Tail(elems),
                                    IF acc = <<>> THEN acc
                                    ELSE SubSeq(acc, 1, Len(acc) - 1))
             ELSE CleanElems(Tail(elems), Append(acc, e))

RECURSIVE JoinElems(_)
JoinElems(elems) ==
    IF elems = <<>> THEN <<>>
    ELSE <<Slash>> \o Head(elems) \o JoinElems(Tail(elems))

\* path.Clean for a path that begins with a slash
Clean(str) ==
    LET elems == CleanElems(SplitFrom(str, <<>>), <<>>)
    IN  IF elems = <<>> THEN <<Slash>> ELSE JoinElems(elems)

\* net/http cleanPath: path.Clean, with a trailing slash kept
MuxCleanPath(str) ==
    LET np == Clean(str)
    IN  IF str[Len(str)] = Slash /\ np # <<Slash>> THEN np \o <<Slash>> ELSE np

\* (mutant) the /pub prefix is left in the path
RewriteNone(str) == str

\* r.URL.Path = strings.Replace(r.URL.Path, "/pub", "/", 1)
RewritePub(str) == Replace1(str, S_pub, <<Slash>>)

\* http.FileServer(http.Dir(outDir)).ServeHTTP for request path upath, with
\* dir the names of the files in outDir
FileServer(upath, dir) ==
    LET elems == CleanElems(SplitFrom(upath, <<>>), <<>>)
    IN  IF HasSuffix(upath, S_indexPage)
          THEN [status |-> 301, kind |-> "redirect"]
        ELSE IF elems = <<>>
          THEN \* the directory itself
               IF upath[Len(upath)] # Slash
                 THEN [status |-> 301, kind |-> "redirect"]
               ELSE IF N_index \in dir
                 THEN [status |-> 200, kind |-> "file", name |-> N_index]
               ELSE [status |-> 200, kind |-> "listing"]
        ELSE IF Len(elems) = 1 /\ elems[1] \in dir
          THEN IF upath[Len(upath)] = Slash
                 THEN [status |-> 301, kind |-> "redirect"]
                 ELSE [status |-> 200, kind |-> "file", name |-> elems[1]]
        ELSE [status |-> 404, kind |-> "notfound"]

GetInit ==
    /\ release \in Releases
    /\ o \in TargetSet(release)
    /\ gDir \in SUBSET FileNames
    /\ gPc = "idle"
    /\ gReq = <<>>
    /\ gPath = <<>>
    /\ gRoute = "none"
    /\ gResp = [status |-> 0, kind |-> "none"]

\* a GET request arrives
GetArrive ==
    /\ gPc \in {"idle", "done"}
    /\ Len(logs) < MaxLogged
    /\ \E p \in RequestPaths : gReq' = p /\ gPath' = p
    /\ gPc' = "mux"
    /\ gRoute' = "none"
    /\ gResp' = [status |-> 0, kind |-> "none"]
    /\ UNCHANGED <<gDir, logs>>
    /\ UNCHANGED nonGetVars

\* the ServeMux: a path that is not clean is answered with a redirect to the
\* clean path; any other path goes to the handler registered for "/"
GetMux ==
    /\ gPc = "mux"
    /\ IF MuxCleanPath(gPath) # gPath
         THEN /\ gPc' = "done"
              /\ gRoute' = "mux"
              /\ gResp' = [status |-> 301, kind |-> "redirect"]
         ELSE /\ gPc' = "handler"
              /\ UNCHANGED <<gRoute, gResp>>
    /\ UNCHANGED <<gDir, gReq, gPath, logs>>
    /\ UNCHANGED nonGetVars

\* the handler function, for r.Method == "GET"
GetHandler ==
    /\ gPc = "handler"
    /\ gPc' = "done"
    /\ IF gPath = S_disklabel
         THEN /\ gRoute' = "disklabel"
              /\ gResp' = [status |-> 200, kind |-> "diskLayout"]
              /\ UNCHANGED <<gPath, logs>>
       ELSE IF gPath = S_installconf
         THEN /\ gRoute' = "install.conf"
              /\ gResp' = [status |-> 200, kind |-> "responseFile"]
              /\ UNCHANGED <<gPath, logs>>
       ELSE IF HasPrefix(gPath, S_pub)
         THEN /\ gRoute' = "fileServer"
              /\ gPath' = RewritePub(gPath)
              /\ gResp' = FileServer(RewritePub(gPath), gDir)
              /\ UNCHANGED logs
       ELSE /\ gRoute' = "unexpected"
            /\ logs' = Append(logs, [about |-> "THERE", path |-> gPath])
            /\ gResp' = [status |-> 200, kind |-> "empty"]
            /\ UNCHANGED gPath
    /\ UNCHANGED <<gDir, gReq>>
    /\ UNCHANGED nonGetVars

GetSpecInit ==
    /\ GetInit
    /\ BuildIdle
    /\ DriverIdle
    /\ FetchIdle
    /\ VerifyIdle
    /\ PostIdle

GetNext ==
    \/ GetArrive
    \/ GetMux
    \/ GetHandler

\* GET requests to the control server, one after the other
GetSpec == GetSpecInit /\ [][GetNext]_vars

(***************************************************************************)
(* Properties of Build.                                                    *)
(***************************************************************************)

\* the steps of the script that send, in script order
SendSteps ==
    [a \in DOMAIN archMap |->
        SelectSeq([i \in 1..ScriptLen |-> i],
                  LAMBDA i : ScriptOf[a][i].cmd = "snd")]

\* the await steps that come before step i of the script
AwaitsBefore ==
    [a \in DOMAIN archMap |->
        [i \in 1..ScriptLen |-> {j \in 1..(i - 1) : ScriptOf[a][j].cmd = "exp"}]]

\* C1: when an await of the dialogue failed or timed out, Build returns an
\* error; it never returns success after a dialogue in which an await did
\* not match.
C1_DialogueFailureFailsBuild ==
    (pc = "Returned" /\ batchErr = "err") => ret = "err"

\* C2: whenever the emulator is running, the control server is listening on
\* its port.
C2_ListeningBeforeEmulator ==
    emu = "running" => listening

\* C3: once a Build call that started the server has returned, the server's
\* listener is released and the emulator it spawned is not running.
C3_ReleasedOnReturn ==
    (pc = "Returned" /\ srvPc # "unborn") =>
        (~listening /\ emu # "running")

\* C4: the k-th line sent is the k-th send step of the script (none skipped,
\* none repeated), every await that precedes it in the script has matched,
\* and nothing is sent while the first await has not matched.
C4_StepsInScriptOrder ==
    /\ Len(sent) <= Len(SendSteps[o.arch])
    /\ \A k \in 1..Len(sent) :
          /\ sent[k] = SendSteps[o.arch][k]
          /\ AwaitsBefore[o.arch][sent[k]] \subseteq matched
    /\ (1 \notin matched => sent = <<>>)

\* C4 witness: the whole script ran, every send was written
C4_AllSent ==
    /\ batchErr = "nil"
    /\ sent = SendSteps[o.arch]
    /\ Len(sent) * 2 = ScriptLen

\* C5: the disk image the emulator is launched with is the disk.raw the disk
\* provisioner created for that architecture.
C5_DriveIsProvisionedDisk ==
    drivePath # <<>> => drivePath = diskPath

\* the upper end of the session budget the spawn timeout is taken for
SessionBudget == 2 * SpawnTimeout

\* C8: the emulator never runs for longer than one session budget after it
\* was spawned, however many awaits the script has.
C8_SessionWithinBudget ==
    emu = "running" => elapsed <= SessionBudget

\* C13: once image creation has failed, Build is returning an error and
\* neither the overlay copy nor the emulator nor any dialogue step has run
\* or will run.
C13_ImageFailureStopsBuild ==
    imgFailed =>
        /\ pc \in {"Defer", "Returned"}
        /\ ret = "err"
        /\ ~ddRan
        /\ emu = "none"
        /\ drivePath = <<>>
        /\ step = 1
        /\ matched = {}
        /\ sent = <<>>
        /\ batchErr = "none"

\* C13 witness: Build has returned after a failed image creation
C13_ReturnedAfterImageFailure ==
    /\ imgFailed
    /\ pc = "Returned"

\* C14: a failed overlay copy does not make Build fail, Build goes on to the
\* spawn, and by the time the emulator has been spawned the failure has been
\* logged.
C14_OverlayFailureLogged ==
    ddFailed =>
        /\ pc # "DD"
        /\ ~imgFailed
        /\ (emu # "none" => \E k \in 1..Len(logs) : logs[k].about = "dd")

\* the await steps of the script
AllAwaits ==
    [a \in DOMAIN archMap |-> {j \in 1..ScriptLen : ScriptOf[a][j].cmd = "exp"}]

\* C15: when every awaited pattern appeared and the emulator stayed alive,
\* the finished dialogue finished without error; a dialogue that finished
\* without error has written every send of the script once, in script
\* order, the last one being the script's final step after the last prompt.
C15_FullTranscriptCompletes ==
    /\ (batchErr # "none" /\ matched = AllAwaits[o.arch] /\ emu # "exited")
          => batchErr = "nil"
    /\ batchErr = "nil" =>
          /\ matched = AllAwaits[o.arch]
          /\ sent = SendSteps[o.arch]
          /\ sent[Len(sent)] = ScriptLen
          /\ ScriptOf[o.arch][ScriptLen - 1].cmd = "exp"

\* C15 witness: a dialogue whose patterns each came after some waiting ran
\* to its end and Build returned
C15_DialogueRanToEnd ==
    /\ pc = "Returned"
    /\ batchErr = "nil"
    /\ elapsed > 0
    /\ Len(sent) = Cardinality(AllAwaits[o.arch])

\* C20: Build never returns with the terminal left in raw mode; once the
\* terminal has been restored every deferred call has run, the emulator is
\* no longer running and the server's listener is no longer bound; when
\* entering raw mode fails, Build returns the error with no server started,
\* no disk created and no emulator spawned.
C20_TerminalRestoredLast ==
    /\ pc = "Returned" => ~termRaw
    /\ (pc \in {"Defer", "Returned"} /\ ~termRaw /\ ~rawFailed) =>
          /\ defers = <<>>
          /\ inShutdown
          /\ ~listening
          /\ emu # "running"
    /\ rawFailed =>
          /\ pc \in {"Defer", "Returned"}
          /\ ret = "err"
          /\ ~termRaw
          /\ srvPc = "unborn"
          /\ diskPath = <<>>
          /\ ~imgFailed /\ ~ddRan
          /\ emu = "none"

(***************************************************************************)
(* Properties of the pipeline driver.                                      *)
(***************************************************************************)

\* the k-th call of a run that never fails: Fetch, Verify, Build for the
\* first target, then for the second, ...
PlannedCall(k) ==
    [arch |-> sets[((k - 1) \div 3) + 1].arch, step |-> StepNames[((k - 1) % 3) + 1]]

\* C7: the calls made are Fetch, Verify, Build for each target in turn;
\* every call but the last one made returned success, so a step starts only
\* after the previous one succeeded and nothing runs after a call that
\* returned an error; once a call was made, the run is halted exactly when
\* the last call failed, and a run halted before the loop made no call.
C7_SequencedFailFast ==
    /\ Len(calls) <= 3 * Len(sets)
    /\ (phase \in {"main", "usage"} => calls = <<>>)
    /\ \A k \in 1..Len(calls) :
          /\ calls[k].arch = PlannedCall(k).arch
          /\ calls[k].step = PlannedCall(k).step
          /\ (k < Len(calls) => calls[k].res = "nil")
    /\ (calls # <<>> =>
          ((phase = "fatal") <=> (calls[Len(calls)].res = "err")))
    /\ (phase = "done") <=>
          ( /\ calls # <<>>
            /\ Len(calls) = 3 * Len(sets)
            /\ calls[Len(calls)].res = "nil" )

\* C7 witness: the run halted at Verify of the second target
C7_HaltedAtSecondVerify ==
    /\ phase = "fatal"
    /\ Len(calls) = 5
    /\ calls[5].step = "Verify"
    /\ calls[4].res = "nil"

\* the name a template stands for: the version token in place of the marker
Substituted(template, sv) ==
    [k \in 1..Len(template) |-> IF template[k] = Marker THEN sv ELSE template[k]]

\* C17: in the artifact set of every target of the table no name contains
\* the marker any more; the set has the templates' length and order, a
\* templated name has the version token where the marker was, and a name
\* without marker is unchanged.
C17_NoMarkerLeft ==
    \A t \in 1..Len(sets) :
        /\ Len(sets[t].sets) = Len(SetTemplates)
        /\ \A i \in 1..Len(sets[t].sets) :
              /\ \A k \in 1..Len(sets[t].sets[i]) : sets[t].sets[i][k] # Marker
              /\ sets[t].sets[i] = Substituted(SetTemplates[i], smushVer(release))

\* C17 witness: the driver is at work on a table of six targets whose sets
\* hold a substituted name
C17_SubstitutedNameInUse ==
    /\ Len(sets) = 6
    /\ phase = "Verify"
    /\ \E i \in 1..Len(sets[idx].sets) :
          /\ \E k \in 1..Len(SetTemplates[i]) : SetTemplates[i][k] = Marker
          /\ \E k \in 1..Len(sets[idx].sets[i]) :
                sets[idx].sets[i][k] = smushVer(release)

(***************************************************************************)
(* Properties of Fetch.                                                    *)
(***************************************************************************)

\* C9: a 404 for bsd.mp does not abort Fetch: the loop has gone on past it,
\* and a Fetch that then succeeds has every other file in place; a 404 for
\* any other file makes Fetch return an error at that file, with no file
\* after it requested.
C9_OnlyBsdMpMayBeMissing ==
    /\ \A i \in f404 :
          IF o.sets[i] = <<"bsd.mp">>
            THEN fIdx > i
            ELSE /\ fRet = "err"
                 /\ fIdx = i
                 /\ \A j \in fReq : j <= i
    /\ fRet = "nil" =>
          \A i \in 1..Len(o.sets) : i \notin f404 => fLocal[i] # "absent"

\* C9 witness: bsd.mp was answered 404, a later file was then downloaded,
\* and Fetch succeeded
C9_BsdMpSkipped ==
    /\ fRet = "nil"
    /\ \E i \in f404 :
          /\ o.sets[i] = <<"bsd.mp">>
          /\ \E j \in fReq : j > i /\ fLocal[j] = "mirror"

\* C16: SHA256.sig is requested from the mirror once the loop has passed
\* it, whether or not outDir already held a copy; any other file is requested
\* only if outDir did not hold it, and a file outDir held is left as it was;
\* after a successful Fetch every file of the set but possibly bsd.mp exists.
C16_FetchIfMissing ==
    /\ \A i \in 1..Len(o.sets) :
          IF o.sets[i] = <<"SHA256.sig">>
            THEN (fIdx > i => i \in fReq)
            ELSE /\ (i \in fReq => i \notin fHad)
                 /\ (i \in fHad => fLocal[i] = "old")
                 /\ ((fIdx > i /\ i \notin fHad) => i \in fReq)
    /\ fRet = "nil" =>
          \A i \in 1..Len(o.sets) :
              fLocal[i] = "absent" => o.sets[i] = <<"bsd.mp">>

\* C16 witness: a successful Fetch that downloaded SHA256.sig over a local
\* copy, downloaded a missing file and left a present one alone
C16_SigRefetched ==
    /\ fRet = "nil"
    /\ \E i \in fHad \cap fReq : o.sets[i] = <<"SHA256.sig">> /\ fLocal[i] = "mirror"
    /\ \E i \in fReq \ fHad : fLocal[i] = "mirror"
    /\ \E i \in fHad \ fReq : fLocal[i] = "old"

\* C19: no file of outDir holds the body of a response whose status was not
\* success, and a Fetch that returned success has every required file as it
\* was or as the mirror delivered it with status 200.
C19_OnlySuccessfulResponsesStored ==
    /\ \A i \in 1..Len(o.sets) : fLocal[i] # "errpage"
    /\ fRet = "nil" =>
          \A i \in 1..Len(o.sets) :
              o.sets[i] # <<"bsd.mp">> => fLocal[i] \in {"old", "mirror"}

(***************************************************************************)
(* Properties of Verify.                                                   *)
(***************************************************************************)

\* C6: signify is run once for every non-metadata file of the set that is
\* present in the artifact directory, whatever the working directory holds;
\* Verify returns the error of the first run that fails and returns success
\* only if every such file was verified.
C6_VerifiesEveryArtifact ==
    /\ \A j, k \in 1..Len(vInvoked) : vInvoked[j] = vInvoked[k] => j = k
    /\ vRet = "err" => vInvoked # <<>> /\ vInvoked[Len(vInvoked)] = vIdx
    /\ vRet = "nil" =>
          \A i \in vDir : \E k \in 1..Len(vInvoked) : vInvoked[k] = i

(***************************************************************************)
(* Properties of the POST handler.                                         *)
(***************************************************************************)

\* C10: when two POSTs were handled one after the other and the second was
\* answered with success, the result file holds exactly the second body.
C10_LastPostReplaces ==
    \A g, r \in Reqs :
        ( /\ order = <<g, r>>
          /\ ~overlap
          /\ hPc[g] = "done"
          /\ hPc[r] = "done"
          /\ hRes[r] = 200 )
        => (resultFile.exists /\ resultFile.data = hBody[r])

\* C10 witness: a longer body B was stored, then a shorter body B2 replaced it
C10_ShorterBodyReplaced ==
    \E g, r \in Reqs :
        /\ order = <<g, r>>
        /\ ~overlap
        /\ hPc[g] = "done" /\ hRes[g] = 200
        /\ hPc[r] = "done" /\ hRes[r] = 200
        /\ Len(hBody[g]) > Len(hBody[r])
        /\ Len(hBody[r]) > 0
        /\ resultFile.data = hBody[r]

\* C18: when two POSTs overlapped and both have completed, the result file
\* holds the complete body of exactly one of them.
C18_ConcurrentPostsKeepOneBody ==
    ( /\ overlap
      /\ \A r \in Reqs : hPc[r] = "done" /\ hRes[r] = 200 )
    => \E r \in Reqs : resultFile.data = hBody[r]

(***************************************************************************)
(* Properties of the GET handler.                                          *)
(***************************************************************************)

PubPath(n) == <<"/", "p", "u", "b", "/">> \o n

\* the answer the claim expects for a request of /pub/<n>
ServedFromArtifacts(n) ==
    /\ gRoute = "fileServer"
    /\ Clean(gPath) = <<Slash>> \o n
    /\ IF n \in gDir
         THEN gResp = [status |-> 200, kind |-> "file", name |-> n]
         ELSE gResp.status = 404

\* C11: for every file name f, an answered GET of /pub/<f> was resolved to
\* /<f> in the artifact directory and returned f's content when f is there, a
\* not-found response when it is not, and never a file the directory lacks.
C11_PubServesEveryName ==
    /\ \A n \in FileNames :
          (gPc = "done" /\ gReq = PubPath(n)) => ServedFromArtifacts(n)
    /\ (gPc = "done" /\ gResp.kind = "file") => gResp.name \in gDir

\* C11 (amended): the same for every file name f other than index.html.
C11_PubServesArtifact ==
    /\ \A n \in FileNames \ {N_index} :
          (gPc = "done" /\ gReq = PubPath(n)) => ServedFromArtifacts(n)
    /\ (gPc = "done" /\ gResp.kind = "file") => gResp.name \in gDir

C11_ArtifactServed ==
    /\ gPc = "done"
    /\ gReq = PubPath(N_bsd)
    /\ N_bsd \in gDir
    /\ gResp = [status |-> 200, kind |-> "file", name |-> N_bsd]

\* C12: an answered GET that reached the handler with a path that is none of
\* /disklabel, /install.conf or /pub/<path> was logged as an unexpected path,
\* was not routed to the file server and returned no content.
C12_OtherPathsIgnored ==
    ( /\ gPc = "done"
      /\ gRoute # "mux"
      /\ gReq \notin {S_disklabel, S_installconf}
      /\ ~HasPrefix(gReq, PubPath(<<>>)) )
    => /\ gRoute = "unexpected"
       /\ gResp.kind = "empty"
       /\ logs # <<>>
       /\ logs[Len(logs)] = [about |-> "THERE", path |-> gReq]

====
